---------------------------- MODULE Spec2Model ----------------------------
(***************************************************************************)
(* A model of sunevent.go: the four entry points SunRise, SunSet, Dawn and *)
(* Dusk, the calculator sunRiseSet they delegate to, the degree            *)
(* trigonometry helpers and normalizeRange.                                *)
(*                                                                         *)
(* Numbers.  The program computes in float64.  The model computes in       *)
(* fixed point over the integers:                                          *)
(*   - an angle in degrees is a whole number of 1/DegUnit degree;          *)
(*   - a time in hours is a whole number of 1/HourUnit hour, and the       *)
(*     approximate time t (in days) a whole number of 1/(24*HourUnit) day; *)
(*   - a sine, cosine or tangent is a whole number of 1/TrigUnit.          *)
(* The trigonometric functions are the table SinTab (the sine of every     *)
(* whole degree) with linear interpolation, and their inverses invert that *)
(* interpolation.  A float64 keeps 53 significant bits and rounds every    *)
(* sum to the nearest value it can hold; the model keeps that behaviour    *)
(* where it decides what the program does, in the two loops of             *)
(* normalizeRange, with MantBits significant bits instead of 53 (Fl, FAdd, *)
(* FSub).  Every value the calculator hands to normalizeRange for a        *)
(* location on Earth needs fewer than MantBits bits, so it is held         *)
(* exactly, as it is in the program.                                       *)
(***************************************************************************)
EXTENDS Integers, Sequences, FiniteSets, TLC

\* ------------------------------------------------------------ numbers

\* Units of the fixed-point representation of float64 quantities.
DegUnit == 40
HourUnit == 600
TrigUnit == 10000
\* Significant bits of the floating-point format (53 in float64).
MantBits == 15

Abs(x) == IF x < 0 THEN -x ELSE x

Sign(x) == IF x < 0 THEN -1 ELSE IF x > 0 THEN 1 ELSE 0

\* a / b rounded to the nearest integer, b > 0.
RDiv(a, b) == (2 * a + b) \div (2 * b)

\* floor(a * n / d) for d > 0, without forming a * n.
MulDiv(a, n, d) == (a \div d) * n + ((a % d) * n) \div d

RECURSIVE Pow2(_)
Pow2(k) == IF k = 0 THEN 1 ELSE 2 * Pow2(k - 1)

\* The spacing of the floating-point values around x: the least power of two u
\* with |x| < 2^MantBits * u.
RECURSIVE UlpFrom(_, _)
UlpFrom(x, u) == IF Abs(x) \div u < Pow2(MantBits) THEN u ELSE UlpFrom(x, 2 * u)

Ulp(x) == UlpFrom(x, 1)

\* x rounded to the nearest floating-point value, ties to the even mantissa.
Fl(x) ==
    LET u == Ulp(x)
        q == x \div u
        r == x - q * u
    IN  IF 2 * r < u THEN q * u
        ELSE IF 2 * r > u THEN (q + 1) * u
        ELSE IF q % 2 = 0 THEN q * u
        ELSE (q + 1) * u

\* float64 addition and subtraction: the exact result, rounded.
FAdd(a, b) == Fl(a + b)

FSub(a, b) == Fl(a - b)

\* ------------------------------------------------------- trigonometry

\* sin(d degrees) * TrigUnit for d = 0, 1, ..., 90 (index d + 1).
SinTab ==
   << 0, 175, 349, 523, 698, 872, 1045, 1219, 1392, 1564,
      1736, 1908, 2079, 2250, 2419, 2588, 2756, 2924, 3090, 3256,
      3420, 3584, 3746, 3907, 4067, 4226, 4384, 4540, 4695, 4848,
      5000, 5150, 5299, 5446, 5592, 5736, 5878, 6018, 6157, 6293,
      6428, 6561, 6691, 6820, 6947, 7071, 7193, 7314, 7431, 7547,
      7660, 7771, 7880, 7986, 8090, 8192, 8290, 8387, 8480, 8572,
      8660, 8746, 8829, 8910, 8988, 9063, 9135, 9205, 9272, 9336,
      9397, 9455, 9511, 9563, 9613, 9659, 9703, 9744, 9781, 9816,
      9848, 9877, 9903, 9925, 9945, 9962, 9976, 9986, 9994, 9998,
      10000 >>

\* The sine of a first-quadrant angle a, 0 <= a <= 90 * DegUnit.
SinQ1(a) ==
    LET d == a \div DegUnit
        f == a % DegUnit
    IN  IF f = 0 THEN SinTab[d + 1]
        ELSE RDiv(SinTab[d + 1] * (DegUnit - f) + SinTab[d + 2] * f, DegUnit)

degreeSin(x) ==
    LET a == x % (360 * DegUnit)
    IN  IF a <= 90 * DegUnit THEN SinQ1(a)
        ELSE IF a <= 180 * DegUnit THEN SinQ1(180 * DegUnit - a)
        ELSE IF a <= 270 * DegUnit THEN -SinQ1(a - 180 * DegUnit)
        ELSE -SinQ1(360 * DegUnit - a)

degreeCos(x) == degreeSin(x + 90 * DegUnit)

\* math.Tan at an odd multiple of 90 degrees is a huge finite number, not a
\* division by zero: TanHuge stands for it.
TanHuge == 1000000000

degreeTan(x) ==
    LET s == degreeSin(x)
        c == degreeCos(x)
    IN  IF c = 0 THEN Sign(s) * TanHuge
        ELSE Sign(s) * Sign(c) * RDiv(Abs(s) * TrigUnit, Abs(c))

\* The angle in 0 .. 90 * DegUnit whose sine is s, 0 <= s <= TrigUnit.
AsinQ1(s) ==
    IF s >= TrigUnit THEN 90 * DegUnit
    ELSE LET d == CHOOSE k \in 0..89 : SinTab[k + 1] <= s /\ s < SinTab[k + 2]
             lo == SinTab[d + 1]
             hi == SinTab[d + 2]
         IN  d * DegUnit + RDiv((s - lo) * DegUnit, hi - lo)

degreeAsin(x) == IF x < 0 THEN -AsinQ1(-x) ELSE AsinQ1(x)

degreeAcos(x) == 90 * DegUnit - degreeAsin(x)

\* tan(d degrees) * TrigUnit for d = 0 .. 45.
TanTab(d) == RDiv(SinTab[d + 1] * TrigUnit, SinTab[91 - d])

\* The angle in 0 .. 45 * DegUnit whose tangent is y, 0 <= y <= TrigUnit.
AtanQ(y) ==
    IF y >= TrigUnit THEN 45 * DegUnit
    ELSE LET d == CHOOSE k \in 0..44 : TanTab(k) <= y /\ y < TanTab(k + 1)
             lo == TanTab(d)
             hi == TanTab(d + 1)
         IN  d * DegUnit + RDiv((y - lo) * DegUnit, hi - lo)

\* atan(y) = 90 - atan(1/y) for y > 1.
AtanPos(y) ==
    IF y <= TrigUnit THEN AtanQ(y)
    ELSE 90 * DegUnit - AtanQ((TrigUnit * TrigUnit) \div y)

degreeAtan(x) == IF x < 0 THEN -AtanPos(-x) ELSE AtanPos(x)

\* --------------------------------------------------- clock and time zone

\* The dates the system clock goes through: the 21st of June, September and
\* December 2023, of March, June, ... 2024, and so on.
Instant(i) ==
    [year |-> 2023 + (i + 1) \div 4, month |-> 3 * ((i + 1) % 4) + 3,
     day |-> 21]

\* The time zones the process may run in: the standard offset in seconds east
\* of UTC, and whether the zone keeps daylight-saving time.
Zones ==
    { [std |-> -28800, dst |-> TRUE],
      [std |-> 0, dst |-> FALSE],
      [std |-> 19800, dst |-> FALSE] }

\* time.Now(): the date of the i-th instant and the offset then in effect in
\* zone z (daylight-saving time from March to September).
Now(i, z) ==
    LET d == Instant(i)
    IN  [year |-> d.year, month |-> d.month, day |-> d.day,
         offset |-> z.std + (IF z.dst /\ d.month < 12 THEN 3600 ELSE 0)]

IsLeap(y) == (y % 4 = 0 /\ y % 100 # 0) \/ y % 400 = 0

\* Days of the year before the first of each month of a common year.
DaysBefore == << 0, 31, 59, 90, 120, 151, 181, 212, 243, 273, 304, 334 >>

\* time.Time.YearDay: 1 for the first of January.
YearDay(d) ==
    DaysBefore[d.month] + d.day + (IF IsLeap(d.year) /\ d.month > 2 THEN 1 ELSE 0)

\* ------------------------------------------------------------- frames

\* The frame of one call: the locals of sunRiseSet and of the normalizeRange
\* call in progress (v, max, ret: the call site it returns to), the position
\* pc, and records of what happened: reads (the clock readings the call has
\* made), ran (whether the current normalizeRange call has run a loop body),
\* spin (the parity of the loop bodies run), and arg and first (the value
\* given to the first of two normalizeRange calls in a row, and the value it
\* returned).
NoDate == [year |-> 0, month |-> 0, day |-> 0, offset |-> 0]

NoTime ==
    [year |-> 0, month |-> 0, day |-> 0, hour |-> 0, minute |-> 0,
     second |-> 0, offset |-> 0]

IdleFrame ==
    [pc |-> "idle", sunrise |-> FALSE, latitude |-> 0, longitude |-> 0, zenith |-> 0,
     today |-> NoDate, reads |-> 0, localOffset |-> 0, N |-> 0,
     lngHour |-> 0, t |-> 0, M |-> 0, L |-> 0, RAnorm |-> 0, RAdeg |-> 0,
     RA |-> 0, sinDec |-> 0, cosDec |-> 0, cosH |-> 0, Hdeg |-> 0, H |-> 0,
     T |-> 0, UT |-> 0, localT |-> 0, v |-> 0, max |-> 0, ret |-> "",
     ran |-> FALSE, spin |-> FALSE, arg |-> 0, first |-> 0, panicValue |-> "", out |-> NoTime]

\* The call normalizeRange(v, max) made at call site ret.
CallNormalize(f, v, max, ret) ==
    [f EXCEPT !.pc = "loop1", !.v = v, !.max = max, !.ret = ret,
              !.ran = FALSE, !.spin = FALSE]

\* --------------------------------------------------------- sunRiseSet

\* The frame at the start of sunRiseSet(sunrise, latitude, longitude, zenith).
sunRiseSetCall(sunrise, latitude, longitude, zenith) ==
    [IdleFrame EXCEPT !.pc = "sunRiseSet", !.sunrise = sunrise,
                      !.latitude = latitude, !.longitude = longitude,
                      !.zenith = zenith]

\* Steps 1 to 4: read the clock, then N, lngHour, t, M and L, up to the call
\* that normalises L.
\*   t is in 1/(24*HourUnit) day, so (6 - lngHour)/24 days is 6 - lngHour hours.
\*   0.9856 degrees a day is 0.9856 * DegUnit / (24 * HourUnit) = 77/28125
\*   angle units for each unit of t.
StepsOneToFour(f, now) ==
    LET sunset == f.sunrise # TRUE
        localOffset == RDiv(now.offset * HourUnit, 3600)
        N == YearDay(now)
        lngHour == MulDiv(f.longitude, HourUnit, 15 * DegUnit)
        t == IF sunset
             THEN N * 24 * HourUnit + (18 * HourUnit - lngHour)
             ELSE N * 24 * HourUnit + (6 * HourUnit - lngHour)
        M == MulDiv(t, 77, 28125) - RDiv(3289 * DegUnit, 1000)
        L == M + RDiv(1916 * DegUnit * degreeSin(M), 1000 * TrigUnit)
               + RDiv(20 * DegUnit * degreeSin(2 * M), 1000 * TrigUnit)
               + RDiv(282634 * DegUnit, 1000)
    IN  CallNormalize([f EXCEPT !.today = now, !.reads = f.reads + 1,
                                !.localOffset = localOffset, !.N = N,
                                !.lngHour = lngHour, !.t = t, !.M = M],
                      L, 360 * DegUnit, "L")

\* Step 5a: L is normalised; RA = atan(0.91764 * tan(L)), up to the call that
\* normalises RA.  0.91764 = 22941/25000.
StepFiveA(f) ==
    LET L == f.v
        RA == degreeAtan(MulDiv(degreeTan(L), 22941, 25000))
    IN  CallNormalize([f EXCEPT !.L = L], RA, 360 * DegUnit, "RA")

\* cosH of step 7a.  cos(latitude) is never exactly zero in float64, so at a
\* pole the quotient is a huge finite number with the numerator's sign.
CosHHuge == 1000000000

HourAngleCosine(zenith, latitude, sinDec, cosDec) ==
    LET num == degreeCos(zenith) - RDiv(sinDec * degreeSin(latitude), TrigUnit)
        den == RDiv(cosDec * degreeCos(latitude), TrigUnit)
    IN  IF den = 0 THEN Sign(num) * CosHHuge
        ELSE Sign(den) * RDiv(num * TrigUnit, Abs(den))

\* Step 5b: RA moved into the quadrant of L.
QuadrantAdjust(L, RA) ==
    LET Lquadrant == (L \div (90 * DegUnit)) * (90 * DegUnit)
        RAquadrant == (RA \div (90 * DegUnit)) * (90 * DegUnit)
    IN  RA + (Lquadrant - RAquadrant)

\* Steps 5b to 7a: RA is normalised; the quadrant adjustment, RA in hours, the
\* declination and cosH, up to the test of cosH.
StepsFiveBToSevenA(f) ==
    LET RAnorm == f.v
        RAdeg == QuadrantAdjust(f.L, RAnorm)
        RA == MulDiv(RAdeg, HourUnit, 15 * DegUnit)
        sinDec == RDiv(39782 * degreeSin(f.L), 100000)
        cosDec == degreeCos(degreeAsin(sinDec))
        cosH == HourAngleCosine(f.zenith, f.latitude, sinDec, cosDec)
    IN  [f EXCEPT !.pc = "testCosH", !.RAnorm = RAnorm, !.RAdeg = RAdeg,
                  !.RA = RA, !.sinDec = sinDec, !.cosDec = cosDec,
                  !.cosH = cosH]

\* The test of step 7a: cosH > 1.0 || cosH < -1.0.
NoAnswer(f) == f.cosH > TrigUnit \/ f.cosH < -TrigUnit

\* panic("no answer").
PanicStep(f) == [f EXCEPT !.pc = "panicked", !.panicValue = "no answer"]

\* Step 7b with "360 + acos(cosH)" for a rising time.
HourAngleDegreesPlus(sunrise, cosH) ==
    IF sunrise # TRUE THEN degreeAcos(cosH) ELSE 360 * DegUnit + degreeAcos(cosH)

\* Step 7b: H = 360 - acos(cosH) for a rising time, acos(cosH) for a setting
\* time, in degrees.
HourAngleDegrees(sunrise, cosH) ==
    IF sunrise # TRUE THEN degreeAcos(cosH) ELSE 360 * DegUnit - degreeAcos(cosH)

\* Steps 7b to 9: H, T, up to the call that normalises T - lngHour.
\*   0.06571 hours a day is 0.06571 / 24 = 6571/(10000 * 240) hour units for
\*   each unit of t.
StepsSevenBToNine(f) ==
    LET Hdeg == HourAngleDegrees(f.sunrise, f.cosH)
        H == MulDiv(Hdeg, HourUnit, 15 * DegUnit)
        T == H + f.RA - MulDiv(MulDiv(f.t, 6571, 10000), 1, 240) - RDiv(6622 * HourUnit, 1000)
    IN  CallNormalize([f EXCEPT !.Hdeg = Hdeg, !.H = H, !.T = T],
                      T - f.lngHour, 24 * HourUnit, "UT")

\* Step 10: UT is normalised, up to the call that normalises UT + localOffset.
StepTen(f) ==
    CallNormalize([f EXCEPT !.UT = f.v], f.v + f.localOffset, 24 * HourUnit,
                  "localT")

\* The end of step 10: localT is normalised; hour, minute and second, and the
\* time.Date of the reading's year, month and day in the reading's zone.
ReturnDate(f) ==
    LET localT == f.v
        hour == localT \div HourUnit
        minute == ((localT - hour * HourUnit) * 60) \div HourUnit
        second == (((localT - hour * HourUnit) * 60 - minute * HourUnit) * 60)
                     \div HourUnit
    IN  [f EXCEPT !.pc = "return", !.localT = localT,
                  !.out = [year |-> f.today.year, month |-> f.today.month,
                           day |-> f.today.day, hour |-> hour,
                           minute |-> minute, second |-> second,
                           offset |-> f.today.offset]]

\* ----------------------------------------------------- normalizeRange

\* Where the call is in normalizeRange: the test of the first loop, or of the
\* second (reached once the first has found v >= 0).
\* The first loop's test written "v <= 0".
FirstLoopTestBelowOrAt(f) == f.v <= 0

\* for v < 0
FirstLoopTest(f) == f.v < 0

\* for v >= max
SecondLoopTest(f) == f.v >= f.max

InFirstLoop(f) == f.pc = "loop1" /\ FirstLoopTest(f)

InSecondLoop(f) ==
    /\ f.pc = "loop2" \/ (f.pc = "loop1" /\ ~FirstLoopTest(f))
    /\ SecondLoopTest(f)

AtReturn(f) ==
    /\ f.pc = "loop2" \/ (f.pc = "loop1" /\ ~FirstLoopTest(f))
    /\ ~SecondLoopTest(f)

\* v += max
LoopAddStep(f) ==
    [f EXCEPT !.v = FAdd(f.v, f.max), !.ran = TRUE, !.spin = ~f.spin]

\* v -= max
LoopSubStep(f) ==
    [f EXCEPT !.pc = "loop2", !.v = FSub(f.v, f.max), !.ran = TRUE,
              !.spin = ~f.spin]

\* -------------------------------------------------------------- state

VARIABLES
    clock,   \* the system clock: the number of the current instant
    zone,    \* the time zone the process runs in
    fr,      \* fr[p]: the frame of caller p's call in progress
    asked,   \* asked[p]: the entry point p called and the arguments it gave
    seen     \* the recovered panics: <<panic value, condition that raised it>>

vars == << clock, zone, fr, asked, seen >>

\* How many times the clock advances.
MaxTicks == 2

\* The locals kept in one place for every call, as package-level variables
\* would be.
FrameOfFirstCaller(p) == fr[1]

\* The locals of caller p's call: each call has its own.
Frame(p) == fr[p]

Callers == DOMAIN fr

NotAsked == [fn |-> "", latitude |-> 0, longitude |-> 0]

\* ------------------------------------------------------- entry points

\* The call each entry point delegates to.
SunRise(latitude, longitude) ==
    sunRiseSetCall(TRUE, latitude, longitude, 90 * DegUnit)

SunSet(latitude, longitude) ==
    sunRiseSetCall(FALSE, latitude, longitude, 90 * DegUnit)

Dawn(latitude, longitude) ==
    sunRiseSetCall(TRUE, latitude, longitude, 83 * DegUnit)

\* Dusk delegating with Dawn's direction.
DuskAsDawn(latitude, longitude) ==
    sunRiseSetCall(TRUE, latitude, longitude, 83 * DegUnit)

Dusk(latitude, longitude) ==
    sunRiseSetCall(FALSE, latitude, longitude, 83 * DegUnit)

\* Caller p calls entry point fn with (latitude, longitude); f is the frame of
\* the call fn delegates to.
Enter(p, fn, latitude, longitude, f) ==
    /\ Frame(p).pc = "idle"
    /\ fr' = [fr EXCEPT ![p] = f]
    /\ asked' = [asked EXCEPT ![p] = [fn |-> fn, latitude |-> latitude,
                                      longitude |-> longitude]]
    /\ UNCHANGED << clock, zone, seen >>

CallSunRise(p, latitude, longitude) ==
    Enter(p, "SunRise", latitude, longitude, SunRise(latitude, longitude))

CallSunSet(p, latitude, longitude) ==
    Enter(p, "SunSet", latitude, longitude, SunSet(latitude, longitude))

CallDawn(p, latitude, longitude) ==
    Enter(p, "Dawn", latitude, longitude, Dawn(latitude, longitude))

CallDusk(p, latitude, longitude) ==
    Enter(p, "Dusk", latitude, longitude, Dusk(latitude, longitude))

\* ------------------------------------------------- steps of sunRiseSet

\* One step of caller p's call: its frame becomes g.
Becomes(p, g) ==
    /\ fr' = [fr EXCEPT ![p] = g]
    /\ UNCHANGED << clock, zone, asked, seen >>

ReadClock(p) ==
    /\ Frame(p).pc = "sunRiseSet"
    /\ Becomes(p, StepsOneToFour(Frame(p), Now(clock, zone)))

LoopAdd(p) ==
    /\ InFirstLoop(Frame(p))
    /\ Becomes(p, LoopAddStep(Frame(p)))

LoopSub(p) ==
    /\ InSecondLoop(Frame(p))
    /\ Becomes(p, LoopSubStep(Frame(p)))

ReturnL(p) ==
    /\ AtReturn(Frame(p)) /\ Frame(p).ret = "L"
    /\ Becomes(p, StepFiveA(Frame(p)))

ReturnRA(p) ==
    /\ AtReturn(Frame(p)) /\ Frame(p).ret = "RA"
    /\ Becomes(p, StepsFiveBToSevenA(Frame(p)))

Panic(p) ==
    /\ Frame(p).pc = "testCosH" /\ NoAnswer(Frame(p))
    /\ Becomes(p, PanicStep(Frame(p)))

HourAngle(p) ==
    /\ Frame(p).pc = "testCosH" /\ ~NoAnswer(Frame(p))
    /\ Becomes(p, StepsSevenBToNine(Frame(p)))

ReturnUT(p) ==
    /\ AtReturn(Frame(p)) /\ Frame(p).ret = "UT"
    /\ Becomes(p, StepTen(Frame(p)))

\* The end of step 10 calling time.Now() again for the date.
ReturnLocalTReadingAgain(p) ==
    /\ AtReturn(Frame(p)) /\ Frame(p).ret = "localT"
    /\ Becomes(p, ReturnDate([Frame(p) EXCEPT !.today = Now(clock, zone),
                                              !.reads = Frame(p).reads + 1]))

ReturnLocalT(p) ==
    /\ AtReturn(Frame(p)) /\ Frame(p).ret = "localT"
    /\ Becomes(p, ReturnDate(Frame(p)))

\* ------------------------------------------------------------ callers

\* The caller receives the timestamp.
Return(p) ==
    /\ Frame(p).pc = "return"
    /\ fr' = [fr EXCEPT ![p] = IdleFrame]
    /\ asked' = [asked EXCEPT ![p] = NotAsked]
    /\ UNCHANGED << clock, zone, seen >>

\* The condition of step 7a that made the call panic.
Condition(f) == IF f.cosH > TrigUnit THEN "never rises" ELSE "never sets"

\* The panic unwinds into a caller that recovers it and notes the value it
\* recovered.
Recover(p) ==
    /\ Frame(p).pc = "panicked"
    /\ seen' = seen \cup { << Frame(p).panicValue, Condition(Frame(p)) >> }
    /\ fr' = [fr EXCEPT ![p] = IdleFrame]
    /\ asked' = [asked EXCEPT ![p] = NotAsked]
    /\ UNCHANGED << clock, zone >>

\* The system clock moves on.
Tick ==
    /\ clock < MaxTicks
    /\ clock' = clock + 1
    /\ UNCHANGED << zone, fr, asked, seen >>

\* ----------------------------------------------------- a call on its own

\* The step a frame takes next, the clock reading now.
Exec(f, now) ==
    IF f.pc = "sunRiseSet" THEN StepsOneToFour(f, now)
    ELSE IF InFirstLoop(f) THEN LoopAddStep(f)
    ELSE IF InSecondLoop(f) THEN LoopSubStep(f)
    ELSE IF f.pc = "testCosH"
         THEN (IF NoAnswer(f) THEN PanicStep(f) ELSE StepsSevenBToNine(f))
    ELSE IF f.ret = "L" THEN StepFiveA(f)
    ELSE IF f.ret = "RA" THEN StepsFiveBToSevenA(f)
    ELSE IF f.ret = "UT" THEN StepTen(f)
    ELSE ReturnDate(f)

\* The frame at the end of a call run from frame f with nothing else running.
RECURSIVE RunAlone(_, _)
RunAlone(f, now) ==
    IF f.pc \in {"return", "panicked"} THEN f ELSE RunAlone(Exec(f, now), now)

\* ------------------------------------------------------ specifications

\* The places callers ask about: << latitude, longitude >> in 1/DegUnit degree.
\* The last two (82.15 and 82.35 degrees south) are where, on the 21st of
\* September, cosH is exactly 1 for zenith 83.
Places ==
    { << 0, 0 >>, << 25 * DegUnit, 121 * DegUnit >>,
      << 45 * DegUnit, -120 * DegUnit >>, << -60 * DegUnit, 0 >>,
      << 85 * DegUnit, 0 >>, << -85 * DegUnit, 0 >>,
      << -3286, 0 >>, << -3294, 0 >> }

Init ==
    /\ clock = 0
    /\ zone \in Zones
    /\ fr = [p \in {1} |-> IdleFrame]
    /\ asked = [p \in {1} |-> NotAsked]
    /\ seen = {}

Next ==
    \/ Tick
    \/ \E p \in Callers, q \in Places : CallSunRise(p, q[1], q[2])
    \/ \E p \in Callers, q \in Places : CallSunSet(p, q[1], q[2])
    \/ \E p \in Callers, q \in Places : CallDawn(p, q[1], q[2])
    \/ \E p \in Callers, q \in Places : CallDusk(p, q[1], q[2])
    \/ \E p \in Callers : ReadClock(p)
    \/ \E p \in Callers : LoopAdd(p)
    \/ \E p \in Callers : LoopSub(p)
    \/ \E p \in Callers : ReturnL(p)
    \/ \E p \in Callers : ReturnRA(p)
    \/ \E p \in Callers : Panic(p)
    \/ \E p \in Callers : HourAngle(p)
    \/ \E p \in Callers : ReturnUT(p)
    \/ \E p \in Callers : ReturnLocalT(p)
    \/ \E p \in Callers : Return(p)
    \/ \E p \in Callers : Recover(p)

Spec == Init /\ [][Next]_vars

\* normalizeRange on its own: normalizeRange(normalizeRange(v, max), max).

\* The frame at the start of normalizeRange(v, max), to be applied twice.
NormalizeTwice(v, max) ==
    [CallNormalize(IdleFrame, v, max, "again") EXCEPT !.arg = v]

\* The first application returns; the second starts on what it returned.
ReturnAgain(p) ==
    /\ AtReturn(Frame(p)) /\ Frame(p).ret = "again"
    /\ Becomes(p, CallNormalize([Frame(p) EXCEPT !.first = Frame(p).v],
                                Frame(p).v, Frame(p).max, "end"))

\* The second application returns.
ReturnEnd(p) ==
    /\ AtReturn(Frame(p)) /\ Frame(p).ret = "end"
    /\ Becomes(p, [Frame(p) EXCEPT !.pc = "done"])

\* The small values of v tried: -MaxV .. MaxV.
MaxV == 40

\* The values of max tried with them: the two the calculator uses (360
\* degrees and 24 hours), and two small ones.
Maxima == { 360 * DegUnit, 24 * HourUnit, 7, 1001 }

\* The calls tried, << v, max >>: the small values with every max; the three
\* of the specification's examples (370 and -10 degrees, 25 hours); and
\* values so large that the sums are rounded.
Inputs ==
    ((-MaxV .. MaxV) \X Maxima)
        \cup { << 370 * DegUnit, 360 * DegUnit >>,
               << -10 * DegUnit, 360 * DegUnit >>,
               << 25 * HourUnit, 24 * HourUnit >>,
               << 33770, 1001 >>,
               << -1, Pow2(MantBits + 1) >>,
               << Pow2(2 * MantBits), 360 * DegUnit >>,
               << -Pow2(2 * MantBits), 24 * HourUnit >>,
               << Pow2(2 * MantBits - 1) + Pow2(MantBits), 360 * DegUnit >> }

InitNorm ==
    /\ clock = 0
    /\ zone = [std |-> 0, dst |-> FALSE]
    /\ \E i \in Inputs : fr = [p \in {1} |-> NormalizeTwice(i[1], i[2])]
    /\ asked = [p \in {1} |-> NotAsked]
    /\ seen = {}

NextNorm ==
    \/ \E p \in Callers : LoopAdd(p)
    \/ \E p \in Callers : LoopSub(p)
    \/ \E p \in Callers : ReturnAgain(p)
    \/ \E p \in Callers : ReturnEnd(p)

\* A running call keeps taking steps.
SpecNorm == InitNorm /\ [][NextNorm]_vars /\ WF_vars(NextNorm)

\* Two callers at once.
PlacesConc == { << 0, 0 >>, << 85 * DegUnit, 0 >> }

InitConc ==
    /\ clock = 0
    /\ zone = [std |-> 19800, dst |-> FALSE]
    /\ fr = [p \in {1, 2} |-> IdleFrame]
    /\ asked = [p \in {1, 2} |-> NotAsked]
    /\ seen = {}

NextConc ==
    \/ Tick
    \/ \E p \in Callers, q \in PlacesConc : CallSunRise(p, q[1], q[2])
    \/ \E p \in Callers, q \in PlacesConc : CallSunSet(p, q[1], q[2])
    \/ \E p \in Callers, q \in PlacesConc : CallDawn(p, q[1], q[2])
    \/ \E p \in Callers, q \in PlacesConc : CallDusk(p, q[1], q[2])
    \/ \E p \in Callers : ReadClock(p)
    \/ \E p \in Callers : LoopAdd(p)
    \/ \E p \in Callers : LoopSub(p)
    \/ \E p \in Callers : ReturnL(p)
    \/ \E p \in Callers : ReturnRA(p)
    \/ \E p \in Callers : Panic(p)
    \/ \E p \in Callers : HourAngle(p)
    \/ \E p \in Callers : ReturnUT(p)
    \/ \E p \in Callers : ReturnLocalT(p)
    \/ \E p \in Callers : Return(p)
    \/ \E p \in Callers : Recover(p)

SpecConc == InitConc /\ [][NextConc]_vars

\* ------------------------------------------------------------- claims

TimeOfDay(d) == (d.hour * 60 + d.minute) * 60 + d.second

\* The call entry point fn delegates to, by the name the caller used.
Delegated(a) ==
    IF a.fn = "SunRise" THEN SunRise(a.latitude, a.longitude)
    ELSE IF a.fn = "SunSet" THEN SunSet(a.latitude, a.longitude)
    ELSE IF a.fn = "Dawn" THEN Dawn(a.latitude, a.longitude)
    ELSE Dusk(a.latitude, a.longitude)

\* C1: while a call made through an entry point is in progress, the
\* calculator's parameters are the (direction, zenith) pair of the event table
\* for that entry point (SunRise: rising, 90; SunSet: setting, 90; Dawn:
\* rising, 83; Dusk: setting, 83) and the caller's latitude and longitude.
C1_EventTable ==
    \A p \in Callers :
        fr[p].pc # "idle" =>
            /\ fr[p].latitude = asked[p].latitude
            /\ fr[p].longitude = asked[p].longitude
            /\ fr[p].sunrise = (asked[p].fn \in {"SunRise", "Dawn"})
            /\ fr[p].zenith = (IF asked[p].fn \in {"SunRise", "SunSet"}
                               THEN 90 * DegUnit ELSE 83 * DegUnit)

\* A call of Dusk, at a place whose latitude and longitude differ, has run to
\* its result.
C1_Witness ==
    \E p \in Callers :
        /\ fr[p].pc = "return"
        /\ asked[p].fn = "Dusk"
        /\ asked[p].latitude # asked[p].longitude

\* C2: the value reported when cosH > 1 ("never rises") and the value reported
\* when cosH < -1 ("never sets") tell the two conditions apart: no value a
\* caller has recovered was raised by both.
C2_ConditionsDistinct ==
    \A a, b \in seen : a[1] = b[1] => a[2] = b[2]

\* C3: when cosH is outside [-1, 1] the call does not end in a panic: control
\* returns to the caller with a result.
C3_ReturnsToCaller ==
    \A p \in Callers :
        (fr[p].pc \notin {"idle", "sunRiseSet"} /\ NoAnswer(fr[p]))
            => fr[p].pc # "panicked"

\* C4: when SunRise returns, and Dawn, SunSet and Dusk for the same place and
\* the same clock reading return too, and the day is a normal one (sunrise
\* before sunset on the clock), then Dawn <= SunRise and SunSet <= Dusk.
C4_DawnRiseSetDusk ==
    \A p \in Callers :
        (fr[p].pc = "return" /\ asked[p].fn = "SunRise") =>
            LET at == asked[p]
                dawn == RunAlone(Dawn(at.latitude, at.longitude), fr[p].today)
                set == RunAlone(SunSet(at.latitude, at.longitude), fr[p].today)
                dusk == RunAlone(Dusk(at.latitude, at.longitude), fr[p].today)
            IN  (/\ dawn.pc = "return" /\ set.pc = "return" /\ dusk.pc = "return"
                 /\ TimeOfDay(fr[p].out) < TimeOfDay(set.out))
                    => /\ TimeOfDay(dawn.out) <= TimeOfDay(fr[p].out)
                       /\ TimeOfDay(fr[p].out) <= TimeOfDay(set.out)
                       /\ TimeOfDay(set.out) <= TimeOfDay(dusk.out)

\* Whether r is the value in [0, max) that differs from v by a whole multiple
\* of max.
Representative(r, v, max) == 0 <= r /\ r < max /\ (v - r) % max = 0

\* C5: normalizeRange(v, max) returns, for every max > 0 and every v, the
\* value of [0, max) that differs from v by a whole multiple of max.
C5_ReturnsRepresentative ==
    <>(\A p \in Callers :
          /\ fr[p].pc = "done"
          /\ Representative(fr[p].first, fr[p].arg, fr[p].max))

\* C6: whenever normalizeRange(v, max) has returned and has been applied again
\* to what it returned, the second application returns the same value and has
\* run neither loop body.
C6_Idempotent ==
    \A p \in Callers :
        fr[p].pc = "done" => (fr[p].v = fr[p].first /\ ~fr[p].ran)

\* Both applications are over, and the first had loop bodies to run.
C6_Witness ==
    \E p \in Callers :
        /\ fr[p].pc = "done"
        /\ fr[p].arg < 0 \/ fr[p].arg >= fr[p].max
        /\ fr[p].arg # fr[p].first

\* C7: normalizeRange(v, max) terminates: every call returns.
C7_Terminates == <>(\A p \in Callers : fr[p].pc = "done")

\* C8: with two callers running at once, the outcome of each finished call
\* (the timestamp, or the panic) is the outcome of the same call, by the same
\* entry point with the same latitude, longitude and clock reading, run alone.
C8_AsIfAlone ==
    \A p \in Callers :
        fr[p].pc \in {"return", "panicked"} =>
            LET alone == RunAlone(Delegated(asked[p]), fr[p].today)
            IN  /\ fr[p].pc = alone.pc
                /\ fr[p].out = alone.out
                /\ fr[p].panicValue = alone.panicValue

\* One caller's call has finished while the other's, for another place, is
\* under way.
C8_Witness ==
    /\ fr[1].pc = "return"
    /\ fr[2].pc \in {"loop1", "loop2", "testCosH"}
    /\ asked[1].latitude # asked[2].latitude

\* The canonical ranges: degrees in [0, 360), hours in [0, 24).
InDegrees(x) == 0 <= x /\ x < 360 * DegUnit

InHours(x) == 0 <= x /\ x < 24 * HourUnit

\* C9 as stated: once set, L, RA (normalised, and after the quadrant
\* adjustment), H, UT and the local time are inside the canonical ranges,
\* RA/15 and H/15 in [0, 24).
C9_CanonicalRanges ==
    \A p \in Callers :
        /\ InDegrees(fr[p].L)
        /\ InDegrees(fr[p].RAnorm) /\ InDegrees(fr[p].RAdeg) /\ InHours(fr[p].RA)
        /\ InDegrees(fr[p].Hdeg) /\ InHours(fr[p].H)
        /\ InHours(fr[p].UT) /\ InHours(fr[p].localT)

\* C9 as amended: the same, except that H lies in [0, 360] and H/15 in
\* [0, 24]: a rising H is 360 - acos(cosH), which is 360 when cosH = 1.
C9_RangesWithClosedH ==
    \A p \in Callers :
        /\ InDegrees(fr[p].L)
        /\ InDegrees(fr[p].RAnorm) /\ InDegrees(fr[p].RAdeg) /\ InHours(fr[p].RA)
        /\ 0 <= fr[p].Hdeg /\ fr[p].Hdeg <= 360 * DegUnit
        /\ (fr[p].Hdeg = 360 * DegUnit => (fr[p].sunrise /\ fr[p].cosH = TrigUnit))
        /\ 0 <= fr[p].H /\ fr[p].H <= 24 * HourUnit
        /\ InHours(fr[p].UT) /\ InHours(fr[p].localT)

\* A rising call at the boundary cosH = 1 has run to its result.
C9_Witness ==
    \E p \in Callers :
        /\ fr[p].pc = "return"
        /\ fr[p].sunrise
        /\ fr[p].cosH = TrigUnit
        /\ fr[p].RAnorm # fr[p].RAdeg

\* C10: a finished call has read the clock once; the timestamp it returns has
\* the year, month, day and offset of that reading, which also gave N and
\* localOffset; its hour is floor(localT), in 0..23, its minute and second in
\* 0..59.
C10_OneReading ==
    \A p \in Callers :
        /\ fr[p].pc \in {"return", "panicked"} => fr[p].reads = 1
        /\ fr[p].pc = "return" =>
              /\ fr[p].out.year = fr[p].today.year
              /\ fr[p].out.month = fr[p].today.month
              /\ fr[p].out.day = fr[p].today.day
              /\ fr[p].out.offset = fr[p].today.offset
              /\ fr[p].N = YearDay(fr[p].today)
              /\ fr[p].localOffset * 3600 = fr[p].today.offset * HourUnit
              /\ \E i \in 0 .. clock : fr[p].today = Now(i, zone)
              /\ fr[p].out.hour * HourUnit <= fr[p].localT
              /\ fr[p].localT < (fr[p].out.hour + 1) * HourUnit
              /\ fr[p].out.hour \in 0 .. 23
              /\ fr[p].out.minute \in 0 .. 59
              /\ fr[p].out.second \in 0 .. 59

\* A call returns after the clock has moved on, and UT + localOffset had to
\* be brought back into [0, 24).
C10_Witness ==
    \E p \in Callers :
        /\ fr[p].pc = "return"
        /\ fr[p].ran
        /\ fr[p].today # Now(clock, zone)

=============================================================================
